---- MODULE Spec2Model ----
(***************************************************************************)
(* The outbound message envelope CosmosMsg<T = Empty> of                   *)
(* cosmwasm-v1-types/src/results/cosmos_msg.rs, its module sub-unions, the  *)
(* serde-derived JSON codec of each of them, and the From upcasts.         *)
(*                                                                         *)
(* In-memory values are records [type, variant, fields] (struct variants)  *)
(* or [type, variant, inner] (newtype variants).  Wire values are JSON     *)
(* values: [k |-> "null"], [k |-> "num", n], [k |-> "str", s],             *)
(* [k |-> "arr", a] and [k |-> "obj", o] with o a function from keys.      *)
(***************************************************************************)
EXTENDS Integers, Sequences, FiniteSets, TLC

VARIABLES features, pc, sub, env, wire, tamper, result

vars == <<features, pc, sub, env, wire, tamper, result>>

(* ------------------------------ bounds --------------------------------- *)

\* longest amount / funds sequence
MaxCoins == 1
\* longest Binary payload, in bytes
MaxBin == 2
\* longest callback_sig, in bytes
MaxSig == 1

(* --------------------------- value domains ----------------------------- *)

Range(f) == {f[i] : i \in DOMAIN f}

SeqsUpTo(S, n) == UNION {[1..len -> S] : len \in 0..n}

\* the byte of Binary payloads and the byte of signatures
MsgBytes == {123}

SigBytes == {255}

Addrs == {"secret1abc"}

Hashes == {"deadbeef"}

Labels == {"label"}

Denoms == {"uscrt"}

Amounts == {0, 100}

CodeIds == {0, 7}

NoValue == [type |-> "none"]

None == [some |-> FALSE]

Some(x) == [some |-> TRUE, val |-> x]

Ok(v) == [ok |-> TRUE, val |-> v]

DecodeError == [ok |-> FALSE]

(* ------------------------------ JSON ----------------------------------- *)

JNull == [k |-> "null"]

JNum(n) == [k |-> "num", n |-> n]

JStr(s) == [k |-> "str", s |-> s]

JArr(a) == [k |-> "arr", a |-> a]

JObj(o) == [k |-> "obj", o |-> o]

(* --------------------- serde rename_all = "snake_case" ----------------- *)

ToLower == [A |-> "a", B |-> "b", C |-> "c", D |-> "d", E |-> "e", F |-> "f",
            G |-> "g", H |-> "h", I |-> "i", J |-> "j", K |-> "k", L |-> "l",
            M |-> "m", N |-> "n", O |-> "o", P |-> "p", Q |-> "q", R |-> "r",
            S |-> "s", T |-> "t", U |-> "u", V |-> "v", W |-> "w", X |-> "x",
            Y |-> "y", Z |-> "z"]

IsUppercase(ch) == ch \in DOMAIN ToLower

ToAsciiLowercase(ch) == IF IsUppercase(ch) THEN ToLower[ch] ELSE ch

RECURSIVE Concat(_, _)
\* the identifier spelled by the characters id[i..]
Concat(id, i) == IF i > Len(id) THEN "" ELSE id[i] \o Concat(id, i + 1)

Name(id) == Concat(id, 1)

RECURSIVE SnakeFrom(_, _)
SnakeFrom(id, i) ==
    IF i > Len(id) THEN ""
    ELSE (IF i > 1 /\ IsUppercase(id[i]) THEN "_" ELSE "")
            \o ToAsciiLowercase(id[i]) \o SnakeFrom(id, i + 1)

SnakeCaseFlat(id) == Concat([i \in DOMAIN id |-> ToAsciiLowercase(id[i])], 1)

\* the wire name of a variant under #[serde(rename_all = "snake_case")]
SnakeCase(id) == SnakeFrom(id, 1)

(* -------------------------- type declarations -------------------------- *)

Field(rust, wireName, ty) == [rust |-> rust, wire |-> wireName, ty |-> ty]

Variant(id, fields) == [ident |-> id, fields |-> fields]

CoinFields == << Field("denom", "denom", "String"), Field("amount", "amount", "Uint128") >>

EmptyFields == << >>

BankMsg == <<
    Variant(<<"S","e","n","d">>,
            << Field("to_address", "to_address", "String"),
               Field("amount", "amount", "Vec<Coin>") >>),
    Variant(<<"B","u","r","n">>,
            << Field("amount", "amount", "Vec<Coin>") >>) >>

StakingMsg == <<
    Variant(<<"D","e","l","e","g","a","t","e">>,
            << Field("validator", "validator", "String"),
               Field("amount", "amount", "Coin") >>),
    Variant(<<"U","n","d","e","l","e","g","a","t","e">>,
            << Field("validator", "validator", "String"),
               Field("amount", "amount", "Coin") >>),
    Variant(<<"R","e","d","e","l","e","g","a","t","e">>,
            << Field("src_validator", "src_validator", "String"),
               Field("dst_validator", "dst_validator", "String"),
               Field("amount", "amount", "Coin") >>) >>

DistributionMsg == <<
    Variant(<<"S","e","t","W","i","t","h","d","r","a","w","A","d","d","r","e","s","s">>,
            << Field("address", "address", "String") >>),
    Variant(<<"W","i","t","h","d","r","a","w","D","e","l","e","g","a","t","o","r",
              "R","e","w","a","r","d">>,
            << Field("validator", "validator", "String") >>) >>

WasmMsgNoRename == <<
    Variant(<<"E","x","e","c","u","t","e">>,
            << Field("contract_addr", "contract_addr", "String"),
               Field("code_hash", "code_hash", "String"),
               Field("msg", "msg", "Binary"),
               Field("funds", "funds", "Vec<Coin>"),
               Field("callback_sig", "callback_sig", "Option<Vec<u8>>") >>),
    Variant(<<"I","n","s","t","a","n","t","i","a","t","e">>,
            << Field("code_id", "code_id", "u64"),
               Field("code_hash", "code_hash", "String"),
               Field("msg", "msg", "Binary"),
               Field("funds", "funds", "Vec<Coin>"),
               Field("label", "label", "String"),
               Field("callback_sig", "callback_sig", "Option<Vec<u8>>") >>) >>

WasmMsg == <<
    Variant(<<"E","x","e","c","u","t","e">>,
            << Field("contract_addr", "contract_addr", "String"),
               Field("code_hash", "code_hash", "String"),
               Field("msg", "msg", "Binary"),
               Field("funds", "send", "Vec<Coin>"),
               Field("callback_sig", "callback_sig", "Option<Vec<u8>>") >>),
    Variant(<<"I","n","s","t","a","n","t","i","a","t","e">>,
            << Field("code_id", "code_id", "u64"),
               Field("code_hash", "code_hash", "String"),
               Field("msg", "msg", "Binary"),
               Field("funds", "send", "Vec<Coin>"),
               Field("label", "label", "String"),
               Field("callback_sig", "callback_sig", "Option<Vec<u8>>") >>) >>

GovMsg == <<
    Variant(<<"V","o","t","e">>,
            << Field("proposal_id", "proposal_id", "u64"),
               Field("vote", "vote", "VoteOption") >>) >>

VoteOption == <<
    <<"Y","e","s">>,
    <<"N","o">>,
    <<"A","b","s","t","a","i","n">>,
    <<"N","o","W","i","t","h","V","e","t","o">> >>

\* crate::ibc::IbcMsg, reduced to one struct variant
IbcMsg == <<
    Variant(<<"C","l","o","s","e","C","h","a","n","n","e","l">>,
            << Field("channel_id", "channel_id", "String") >>) >>

Newtype(id, cfg, inner) ==
    [ident |-> id, cfg |-> cfg, kind |-> "newtype", inner |-> inner, fields |-> << >>]

StructVariant(id, cfg, fields) ==
    [ident |-> id, cfg |-> cfg, kind |-> "struct", inner |-> "", fields |-> fields]

\* the two cargo features the declarations are gated on
Features == {"staking", "stargate"}

CosmosMsgOwnFeature == <<
    Newtype(<<"B","a","n","k">>, "", "BankMsg"),
    Newtype(<<"C","u","s","t","o","m">>, "", "Empty"),
    Newtype(<<"S","t","a","k","i","n","g">>, "staking", "StakingMsg"),
    Newtype(<<"D","i","s","t","r","i","b","u","t","i","o","n">>, "distribution",
            "DistributionMsg"),
    StructVariant(<<"S","t","a","r","g","a","t","e">>, "stargate",
                  << Field("type_url", "type_url", "String"),
                     Field("value", "value", "Binary") >>),
    Newtype(<<"I","b","c">>, "stargate", "IbcMsg"),
    Newtype(<<"W","a","s","m">>, "", "WasmMsg"),
    Newtype(<<"G","o","v">>, "stargate", "GovMsg") >>

\* pub enum CosmosMsg<T = Empty>: each variant with its #[cfg(feature = ...)]
CosmosMsg == <<
    Newtype(<<"B","a","n","k">>, "", "BankMsg"),
    Newtype(<<"C","u","s","t","o","m">>, "", "Empty"),
    Newtype(<<"S","t","a","k","i","n","g">>, "staking", "StakingMsg"),
    Newtype(<<"D","i","s","t","r","i","b","u","t","i","o","n">>, "staking",
            "DistributionMsg"),
    StructVariant(<<"S","t","a","r","g","a","t","e">>, "stargate",
                  << Field("type_url", "type_url", "String"),
                     Field("value", "value", "Binary") >>),
    Newtype(<<"I","b","c">>, "stargate", "IbcMsg"),
    Newtype(<<"W","a","s","m">>, "", "WasmMsg"),
    Newtype(<<"G","o","v">>, "stargate", "GovMsg") >>

CompiledInAll(decl, feats) == Range(decl)

\* the variants of an enum declaration a build with features feats compiles in
CompiledIn(decl, feats) == {v \in Range(decl) : v.cfg = "" \/ v.cfg \in feats}

\* the declaration of a module sub-union
Decl(ty) ==
    CASE ty = "BankMsg" -> BankMsg
      [] ty = "StakingMsg" -> StakingMsg
      [] ty = "DistributionMsg" -> DistributionMsg
      [] ty = "WasmMsg" -> WasmMsg
      [] ty = "GovMsg" -> GovMsg
      [] ty = "IbcMsg" -> IbcMsg

(* ------------------------ external value codecs ------------------------ *)

Base64Alphabet ==
    << "A","B","C","D","E","F","G","H","I","J","K","L","M","N","O","P",
       "Q","R","S","T","U","V","W","X","Y","Z","a","b","c","d","e","f",
       "g","h","i","j","k","l","m","n","o","p","q","r","s","t","u","v",
       "w","x","y","z","0","1","2","3","4","5","6","7","8","9","+","/" >>

B64(n) == Base64Alphabet[n + 1]

RECURSIVE Base64From(_, _)
\* standard padded base64 of the bytes b[i..]
Base64From(b, i) ==
    LET left == Len(b) - i + 1 IN
    IF left <= 0 THEN ""
    ELSE IF left = 1 THEN
        B64(b[i] \div 4) \o B64((b[i] % 4) * 16) \o "=="
    ELSE IF left = 2 THEN
        B64(b[i] \div 4) \o B64((b[i] % 4) * 16 + b[i+1] \div 16)
            \o B64((b[i+1] % 16) * 4) \o "="
    ELSE
        B64(b[i] \div 4) \o B64((b[i] % 4) * 16 + b[i+1] \div 16)
            \o B64((b[i+1] % 16) * 4 + b[i+2] \div 64) \o B64(b[i+2] % 64)
            \o Base64From(b, i + 3)

Base64(b) == Base64From(b, 1)

Binaries == SeqsUpTo(MsgBytes, MaxBin)

\* Binary's Deserialize: the bytes whose base64 text is s
Base64Decode(s) ==
    IF \E b \in Binaries : Base64(b) = s
    THEN Ok(CHOOSE b \in Binaries : Base64(b) = s)
    ELSE DecodeError

\* Uint128's Deserialize: the number whose decimal text is s
Uint128FromStr(s) ==
    IF \E n \in Amounts : ToString(n) = s
    THEN Ok(CHOOSE n \in Amounts : ToString(n) = s)
    ELSE DecodeError

(* ------------------------- derive(Serialize) --------------------------- *)

SerializeOptionAsEmpty(v) ==
    IF v.some THEN JArr([i \in DOMAIN v.val |-> JNum(v.val[i])]) ELSE JArr(<< >>)

\* Option<Vec<u8>>: serialize_none / serialize_some of a byte sequence
SerializeOption(v) ==
    IF v.some THEN JArr([i \in DOMAIN v.val |-> JNum(v.val[i])]) ELSE JNull

\* a unit variant of VoteOption
SerializeVoteOption(v) ==
    JStr(SnakeCase(CHOOSE id \in Range(VoteOption) : Name(id) = v))

RECURSIVE SerializeTy(_, _)
RECURSIVE SerializeFields(_, _)

SerializeFieldsSkipNone(fields, rec) ==
    [key \in {f.wire : f \in {g \in Range(fields) :
                    g.ty = "Option<Vec<u8>>" => rec[g.rust].some}} |->
        LET f == CHOOSE f \in Range(fields) : f.wire = key
        IN SerializeTy(f.ty, rec[f.rust])]

SerializeTy(ty, v) ==
    CASE ty = "String" -> JStr(v)
      [] ty = "u64" -> JNum(v)
      [] ty = "Uint128" -> JStr(ToString(v))
      [] ty = "Binary" -> JStr(Base64(v))
      [] ty = "Coin" -> JObj(SerializeFields(CoinFields, v))
      [] ty = "Vec<Coin>" ->
            JArr([i \in DOMAIN v |-> JObj(SerializeFields(CoinFields, v[i]))])
      [] ty = "Option<Vec<u8>>" -> SerializeOption(v)
      [] ty = "VoteOption" -> SerializeVoteOption(v)

\* serialize_field for every declared field, under its wire name
SerializeFields(fields, rec) ==
    [key \in {f.wire : f \in Range(fields)} |->
        LET f == CHOOSE f \in Range(fields) : f.wire = key
        IN SerializeTy(f.ty, rec[f.rust])]

VariantOf(decl, name) == CHOOSE v \in Range(decl) : Name(v.ident) = name

\* an externally tagged struct variant of a module sub-union
SerializeEnum(decl, m) ==
    LET v == VariantOf(decl, m.variant)
    IN JObj(SnakeCase(v.ident) :> JObj(SerializeFields(v.fields, m.fields)))

\* the content of a newtype variant of the envelope
SerializeInner(ty, m) ==
    IF ty = "Empty" THEN JObj(SerializeFields(EmptyFields, m.fields))
    ELSE SerializeEnum(Decl(ty), m)

SerializeCosmosMsgUntagged(e) ==
    LET v == VariantOf(CosmosMsg, e.variant)
    IN IF v.kind = "newtype" THEN SerializeInner(v.inner, e.inner)
       ELSE JObj(SerializeFields(v.fields, e.fields))

\* encode: the envelope as an externally tagged enum
SerializeCosmosMsg(e) ==
    LET v == VariantOf(CosmosMsg, e.variant)
    IN JObj(SnakeCase(v.ident) :>
            (IF v.kind = "newtype" THEN SerializeInner(v.inner, e.inner)
             ELSE JObj(SerializeFields(v.fields, e.fields))))

(* ------------------------ derive(Deserialize) -------------------------- *)

IsByte(j) == j.k = "num" /\ j.n \in 0..255

DeserializeOptionNullAsEmpty(j) ==
    IF j.k = "null" THEN Ok(Some(<< >>))
    ELSE IF j.k = "arr" /\ \A i \in DOMAIN j.a : IsByte(j.a[i])
    THEN Ok(Some([i \in DOMAIN j.a |-> j.a[i].n]))
    ELSE DecodeError

\* Option<Vec<u8>>: null is None, anything else must be a byte sequence
DeserializeOption(j) ==
    IF j.k = "null" THEN Ok(None)
    ELSE IF j.k = "arr" /\ \A i \in DOMAIN j.a : IsByte(j.a[i])
    THEN Ok(Some([i \in DOMAIN j.a |-> j.a[i].n]))
    ELSE DecodeError

\* a unit variant: the tag as a string, or {tag: null}
DeserializeVoteOption(j) ==
    LET tag == IF j.k = "str" THEN {j.s}
               ELSE IF j.k = "obj" /\ Cardinality(DOMAIN j.o) = 1
                       /\ \A t \in DOMAIN j.o : j.o[t].k = "null"
               THEN DOMAIN j.o
               ELSE {}
        ids == {id \in Range(VoteOption) : SnakeCase(id) \in tag}
    IN IF ids = {} THEN DecodeError ELSE Ok(Name(CHOOSE id \in ids : TRUE))

MissingFieldDefault(f) ==
    CASE f.ty = "Option<Vec<u8>>" -> Ok(None)
      [] f.ty = "Vec<Coin>" -> Ok(<< >>)
      [] f.ty = "String" -> Ok("")
      [] f.ty = "u64" -> Ok(0)
      [] OTHER -> DecodeError

\* serde's missing_field: only an Option field may be absent, and is then None
MissingField(f) == IF f.ty = "Option<Vec<u8>>" THEN Ok(None) ELSE DecodeError

RECURSIVE DeserializeTy(_, _)
RECURSIVE DeserializeFields(_, _)

DeserializeTy(ty, j) ==
    CASE ty = "String" -> IF j.k = "str" THEN Ok(j.s) ELSE DecodeError
      [] ty = "u64" -> IF j.k = "num" /\ j.n >= 0 THEN Ok(j.n) ELSE DecodeError
      [] ty = "Uint128" -> IF j.k = "str" THEN Uint128FromStr(j.s) ELSE DecodeError
      [] ty = "Binary" -> IF j.k = "str" THEN Base64Decode(j.s) ELSE DecodeError
      [] ty = "Coin" -> DeserializeFields(CoinFields, j)
      [] ty = "Vec<Coin>" ->
            IF j.k # "arr" THEN DecodeError
            ELSE LET r == [i \in DOMAIN j.a |-> DeserializeFields(CoinFields, j.a[i])]
                 IN IF \A i \in DOMAIN r : r[i].ok
                    THEN Ok([i \in DOMAIN r |-> r[i].val])
                    ELSE DecodeError
      [] ty = "Option<Vec<u8>>" -> DeserializeOption(j)
      [] ty = "VoteOption" -> DeserializeVoteOption(j)

\* the derived struct visitor: visit_map (unknown keys ignored, a missing
\* key goes to missing_field) or visit_seq (the fields in declaration order)
DeserializeFields(fields, j) ==
    LET r == [i \in DOMAIN fields |->
                IF j.k = "obj"
                THEN IF fields[i].wire \in DOMAIN j.o
                     THEN DeserializeTy(fields[i].ty, j.o[fields[i].wire])
                     ELSE MissingField(fields[i])
                ELSE DeserializeTy(fields[i].ty, j.a[i])]
    IN IF j.k \notin {"obj", "arr"} THEN DecodeError
       ELSE IF j.k = "arr" /\ Len(j.a) # Len(fields) THEN DecodeError
       ELSE IF \A i \in DOMAIN fields : r[i].ok
       THEN Ok([name \in {f.rust : f \in Range(fields)} |->
                   r[CHOOSE i \in DOMAIN fields : fields[i].rust = name].val])
       ELSE DecodeError

\* the single key of an externally tagged enum, {} when j is not such a map
TagOf(j) == IF j.k = "obj" /\ Cardinality(DOMAIN j.o) = 1 THEN DOMAIN j.o ELSE {}

\* an externally tagged struct variant of a module sub-union
DeserializeEnum(ty, j) ==
    LET vs == {v \in Range(Decl(ty)) : SnakeCase(v.ident) \in TagOf(j)}
    IN IF vs = {} THEN DecodeError
       ELSE LET v == CHOOSE v \in vs : TRUE
                r == DeserializeFields(v.fields, j.o[SnakeCase(v.ident)])
            IN IF r.ok
               THEN Ok([type |-> ty, variant |-> Name(v.ident), fields |-> r.val])
               ELSE DecodeError

DeserializeInner(ty, j) ==
    IF ty = "Empty"
    THEN LET r == DeserializeFields(EmptyFields, j)
         IN IF r.ok THEN Ok([type |-> "Empty", fields |-> r.val]) ELSE DecodeError
    ELSE DeserializeEnum(ty, j)

\* decode: the envelope of a build with features feats
DeserializeCosmosMsg(feats, j) ==
    LET vs == {v \in CompiledIn(CosmosMsg, feats) : SnakeCase(v.ident) \in TagOf(j)}
    IN IF vs = {} THEN DecodeError
       ELSE LET v == CHOOSE v \in vs : TRUE
                c == j.o[SnakeCase(v.ident)]
                r == IF v.kind = "newtype" THEN DeserializeInner(v.inner, c)
                     ELSE DeserializeFields(v.fields, c)
            IN IF ~r.ok THEN DecodeError
               ELSE IF v.kind = "newtype"
               THEN Ok([type |-> "CosmosMsg", variant |-> Name(v.ident), inner |-> r.val])
               ELSE Ok([type |-> "CosmosMsg", variant |-> Name(v.ident), fields |-> r.val])

(* ------------------------------ From ----------------------------------- *)

\* the impl From<ty> for CosmosMsg<T> blocks, each with its cfg
FromImpls == <<
    [from |-> "BankMsg", cfg |-> "", to |-> "Bank"],
    [from |-> "StakingMsg", cfg |-> "staking", to |-> "Staking"],
    [from |-> "DistributionMsg", cfg |-> "staking", to |-> "Distribution"],
    [from |-> "WasmMsg", cfg |-> "", to |-> "Wasm"],
    [from |-> "IbcMsg", cfg |-> "stargate", to |-> "Ibc"],
    [from |-> "GovMsg", cfg |-> "stargate", to |-> "Gov"] >>

FromResetSig(m) ==
    [type |-> "CosmosMsg",
     variant |-> (CHOOSE i \in Range(FromImpls) : i.from = m.type).to,
     inner |-> IF m.type = "WasmMsg"
               THEN [m EXCEPT !.fields.callback_sig = None]
               ELSE m]

\* fn from(msg) -> Self { CosmosMsg::Variant(msg) }
From(m) ==
    [type |-> "CosmosMsg",
     variant |-> (CHOOSE i \in Range(FromImpls) : i.from = m.type).to,
     inner |-> m]

(* --------------------------- message values ---------------------------- *)

Coins == [denom : Denoms, amount : Amounts]

CoinSeqs == SeqsUpTo(Coins, MaxCoins)

CallbackSigs == {None} \cup {Some(b) : b \in SeqsUpTo(SigBytes, MaxSig)}

Msg(ty, variant, fields) == [type |-> ty, variant |-> variant, fields |-> fields]

BankMsgs ==
    {Msg("BankMsg", "Send", [to_address |-> a, amount |-> c]) :
        a \in Addrs, c \in CoinSeqs}
    \cup {Msg("BankMsg", "Burn", [amount |-> c]) : c \in CoinSeqs}

StakingMsgs ==
    {Msg("StakingMsg", v, [validator |-> a, amount |-> c]) :
        v \in {"Delegate", "Undelegate"}, a \in Addrs, c \in Coins}
    \cup {Msg("StakingMsg", "Redelegate",
              [src_validator |-> a, dst_validator |-> a, amount |-> c]) :
            a \in Addrs, c \in Coins}

DistributionMsgs ==
    {Msg("DistributionMsg", "SetWithdrawAddress", [address |-> a]) : a \in Addrs}
    \cup {Msg("DistributionMsg", "WithdrawDelegatorReward", [validator |-> a]) :
            a \in Addrs}

WasmMsgs ==
    {Msg("WasmMsg", "Execute",
         [contract_addr |-> a, code_hash |-> h, msg |-> b, funds |-> c,
          callback_sig |-> g]) :
        a \in Addrs, h \in Hashes, b \in Binaries, c \in CoinSeqs, g \in CallbackSigs}
    \cup {Msg("WasmMsg", "Instantiate",
              [code_id |-> n, code_hash |-> h, msg |-> b, funds |-> c,
               label |-> l, callback_sig |-> g]) :
            n \in CodeIds, h \in Hashes, b \in Binaries, c \in CoinSeqs,
            l \in Labels, g \in CallbackSigs}

GovMsgs ==
    {Msg("GovMsg", "Vote", [proposal_id |-> n, vote |-> Name(o)]) :
        n \in CodeIds, o \in Range(VoteOption)}

IbcMsgs == {Msg("IbcMsg", "CloseChannel", [channel_id |-> "channel-0"])}

\* the module sub-union types with the cfg of their declaration
SubUnions == <<
    [ty |-> "BankMsg", cfg |-> ""],
    [ty |-> "StakingMsg", cfg |-> "staking"],
    [ty |-> "DistributionMsg", cfg |-> "staking"],
    [ty |-> "WasmMsg", cfg |-> ""],
    [ty |-> "IbcMsg", cfg |-> "stargate"],
    [ty |-> "GovMsg", cfg |-> "stargate"] >>

ValuesOf(ty) ==
    CASE ty = "BankMsg" -> BankMsgs
      [] ty = "StakingMsg" -> StakingMsgs
      [] ty = "DistributionMsg" -> DistributionMsgs
      [] ty = "WasmMsg" -> WasmMsgs
      [] ty = "GovMsg" -> GovMsgs
      [] ty = "IbcMsg" -> IbcMsgs

\* the sub-union values a build with features feats can construct
SubMsgs(feats) == UNION {ValuesOf(u.ty) : u \in CompiledIn(SubUnions, feats)}

\* the envelopes built without a sub-union: Custom(Empty) and Stargate {..}
DirectMsgs(feats) ==
    {[type |-> "CosmosMsg", variant |-> "Custom",
      inner |-> [type |-> "Empty", fields |-> << >>]]}
    \cup {[type |-> "CosmosMsg", variant |-> "Stargate",
           fields |-> [type_url |-> "/cosmos.bank.v1beta1.MsgSend", value |-> b]] :
            b \in IF "stargate" \in feats THEN Binaries ELSE {}}

CosmosMsgs(feats) == {From(m) : m \in SubMsgs(feats)} \cup DirectMsgs(feats)

(* ------------------------- untrusted wire input ------------------------ *)

NoTamper == [kind |-> "none", arg |-> ""]

\* TRUE when the variant content of w is itself a tagged sub-union
Nested(w) ==
    /\ TagOf(w) # {}
    /\ \A t \in TagOf(w) :
        /\ TagOf(w.o[t]) # {}
        /\ \A u \in TagOf(w.o[t]) : w.o[t].o[u].k = "obj"

OuterTag(w) == CHOOSE t \in TagOf(w) : TRUE

InnerTag(w) == CHOOSE u \in TagOf(w.o[OuterTag(w)]) : TRUE

\* the object that holds the fields of the variant w carries
StructOf(w) == IF Nested(w) THEN w.o[OuterTag(w)].o[InnerTag(w)] ELSE w.o[OuterTag(w)]

WithStruct(w, s) ==
    IF Nested(w) THEN JObj(OuterTag(w) :> JObj(InnerTag(w) :> s))
    ELSE JObj(OuterTag(w) :> s)

Without(o, key) == [x \in DOMAIN o \ {key} |-> o[x]]

OuterTagPool == {"bank", "custom", "staking", "distribution", "stargate", "ibc",
                 "wasm", "gov", "unknown", "Bank"}

InnerTagPool == {"unknown", "Execute", "undelegate"}

FieldKeys(w) == IF StructOf(w).k = "obj" THEN DOMAIN StructOf(w).o ELSE {}

\* the ways a payload can differ from what an encoder of this type writes
Mutations(w) ==
    {[kind |-> "retag_outer", arg |-> t] : t \in OuterTagPool \ {OuterTag(w)}}
    \cup {[kind |-> "retag_inner", arg |-> t] :
            t \in IF Nested(w) THEN InnerTagPool \ {InnerTag(w)} ELSE {}}
    \cup {[kind |-> knd, arg |-> key] :
            knd \in {"drop_field", "wrong_type", "add_unknown"}, key \in FieldKeys(w)}
    \cup {[kind |-> "null_field", arg |-> key] :
            key \in {x \in FieldKeys(w) : StructOf(w).o[x].k # "null"}}
    \cup {[kind |-> "negative", arg |-> key] :
            key \in {x \in FieldKeys(w) : StructOf(w).o[x].k = "num"}}
    \cup {[kind |-> "rename_field", arg |-> key] : key \in FieldKeys(w) \cap {"send"}}
    \cup {[kind |-> "extra_outer", arg |-> "unknown"],
          [kind |-> "as_unit", arg |-> OuterTag(w)]}

Mutate(w, m) ==
    LET s == StructOf(w)
        key == m.arg
    IN CASE m.kind = "retag_outer" -> JObj(m.arg :> w.o[OuterTag(w)])
         [] m.kind = "retag_inner" -> JObj(OuterTag(w) :> JObj(m.arg :> s))
         [] m.kind = "drop_field" -> WithStruct(w, JObj(Without(s.o, key)))
         [] m.kind = "wrong_type" ->
                WithStruct(w, JObj((key :> (IF s.o[key].k = "num" THEN JStr("7")
                                             ELSE JNum(7))) @@ s.o))
         [] m.kind = "add_unknown" -> WithStruct(w, JObj(("extra_" \o key :> s.o[key]) @@ s.o))
         [] m.kind = "null_field" -> WithStruct(w, JObj((key :> JNull) @@ s.o))
         [] m.kind = "negative" -> WithStruct(w, JObj((key :> JNum(0 - 1)) @@ s.o))
         [] m.kind = "rename_field" ->
                WithStruct(w, JObj(("funds" :> s.o[key]) @@ Without(s.o, key)))
         [] m.kind = "extra_outer" -> JObj((m.arg :> JNull) @@ w.o)
         [] m.kind = "as_unit" -> JStr(m.arg)

(* ------------------------------ actions -------------------------------- *)

Init ==
    /\ features \in SUBSET Features
    /\ pc = "idle"
    /\ sub = NoValue
    /\ env = NoValue
    /\ wire = NoValue
    /\ tamper = NoTamper
    /\ result = NoValue

\* contract code builds a module-specific message
Construct ==
    /\ pc = "idle"
    /\ \E m \in SubMsgs(features) : sub' = m
    /\ pc' = "sub"
    /\ UNCHANGED <<features, env, wire, tamper, result>>

\* msg.into(): the upcast of the sub-union value into the envelope
Upcast ==
    /\ pc = "sub"
    /\ env' = From(sub)
    /\ pc' = "env"
    /\ UNCHANGED <<features, sub, wire, tamper, result>>

\* contract code builds an envelope variant directly
ConstructDirect ==
    /\ pc = "idle"
    /\ \E e \in DirectMsgs(features) : env' = e
    /\ pc' = "env"
    /\ UNCHANGED <<features, sub, wire, tamper, result>>

\* the envelope is serialized across the contract/host boundary
Encode ==
    /\ pc = "env"
    /\ wire' = SerializeCosmosMsg(env)
    /\ pc' = "wire"
    /\ UNCHANGED <<features, sub, env, tamper, result>>

\* a payload written by a peer built with every feature arrives
Receive ==
    /\ pc = "idle"
    /\ \E e \in CosmosMsgs(Features) : wire' = SerializeCosmosMsg(e)
    /\ pc' = "wire"
    /\ UNCHANGED <<features, sub, env, tamper, result>>

\* the payload is not what an encoder wrote
Tamper ==
    /\ pc = "wire"
    /\ tamper = NoTamper
    /\ TagOf(wire) # {}
    /\ \E m \in Mutations(wire) :
        /\ wire' = Mutate(wire, m)
        /\ tamper' = m
    /\ UNCHANGED <<features, pc, sub, env, result>>

\* the host deserializes the payload
Decode ==
    /\ pc = "wire"
    /\ result' = DeserializeCosmosMsg(features, wire)
    /\ pc' = "done"
    /\ UNCHANGED <<features, sub, env, wire, tamper>>

\* the crate is compiled with another feature set
Rebuild ==
    /\ pc \in {"idle", "done"}
    /\ \E f \in SUBSET Features : f # features /\ features' = f
    /\ pc' = "idle"
    /\ sub' = NoValue
    /\ env' = NoValue
    /\ wire' = NoValue
    /\ tamper' = NoTamper
    /\ result' = NoValue

Next ==
    \/ Construct
    \/ Upcast
    \/ ConstructDirect
    \/ Encode
    \/ Receive
    \/ Tamper
    \/ Decode
    \/ Rebuild

Spec == Init /\ [][Next]_vars

(* ------------------------------ claims --------------------------------- *)

\* the payload on the wire is exactly what Encode wrote for env
Encoded == env # NoValue /\ tamper = NoTamper

\* the wire tags as the interface table lists them
TagNames ==
    [Bank |-> "bank", Custom |-> "custom", Staking |-> "staking",
     Distribution |-> "distribution", Stargate |-> "stargate", Ibc |-> "ibc",
     Wasm |-> "wasm", Gov |-> "gov",
     Send |-> "send", Burn |-> "burn", Delegate |-> "delegate",
     Undelegate |-> "undelegate", Redelegate |-> "redelegate",
     SetWithdrawAddress |-> "set_withdraw_address",
     WithdrawDelegatorReward |-> "withdraw_delegator_reward",
     Execute |-> "execute", Instantiate |-> "instantiate", Vote |-> "vote",
     Yes |-> "yes", No |-> "no", Abstain |-> "abstain", NoWithVeto |-> "no_with_veto"]

\* the envelope variants that wrap a sub-union declared in this file
Wrapping == {"Bank", "Staking", "Distribution", "Wasm", "Gov"}

\* C1: round trip -- decoding the payload Encode wrote for an envelope gives
\* back exactly that envelope, whatever its variant and field values.
C1_RoundTrip == (pc = "done" /\ Encoded) => result = Ok(env)

C1_Witness ==
    /\ pc = "done" /\ Encoded
    /\ env.variant = "Wasm" /\ env.inner.variant = "Instantiate"
    /\ env.inner.fields.code_id = 0
    /\ env.inner.fields.funds = << >>
    /\ env.inner.fields.callback_sig = None
    /\ result = Ok(env)

DistinctTags(ids) == \A a, b \in ids : SnakeCase(a) = SnakeCase(b) => a = b

\* C2: tag stability -- the payload Encode wrote is a map with the single key
\* that the interface table gives for the variant, at the envelope level and at
\* the sub-union level, a vote option is the listed string, and no two variants
\* of one union of the build have the same tag.
C2_TagStability ==
    /\ (pc = "wire" /\ Encoded) =>
        /\ TagOf(wire) = {TagNames[env.variant]}
        /\ env.variant \in Wrapping =>
            TagOf(wire.o[TagNames[env.variant]]) = {TagNames[env.inner.variant]}
        /\ env.variant = "Gov" =>
            wire.o["gov"].o["vote"].o["vote"] = JStr(TagNames[env.inner.fields.vote])
    /\ pc = "idle" =>
        /\ DistinctTags({v.ident : v \in CompiledIn(CosmosMsg, features)})
        /\ \A ty \in {u.ty : u \in CompiledIn(SubUnions, features)} :
            DistinctTags({v.ident : v \in Range(Decl(ty))})
        /\ DistinctTags(Range(VoteOption))

C2_Witness ==
    /\ pc = "wire" /\ Encoded
    /\ env.variant = "Gov" /\ env.inner.fields.vote = "NoWithVeto"
    /\ wire.o["gov"].o["vote"].o["vote"] = JStr("no_with_veto")

\* C3: the funds of a wasm message travel under the key send: Encode writes
\* them there and writes no key funds, a decoded wasm message has the funds
\* read from the key send, and a wasm payload with a key funds and no key
\* send fails to decode.
C3_FundsKeyIsSend ==
    /\ (pc = "wire" /\ Encoded /\ env.variant = "Wasm") =>
        /\ "send" \in FieldKeys(wire)
        /\ "funds" \notin FieldKeys(wire)
        /\ StructOf(wire).o["send"] = SerializeTy("Vec<Coin>", env.inner.fields.funds)
    /\ (pc = "done" /\ TagOf(wire) = {"wasm"} /\ result.ok) =>
        /\ "send" \in FieldKeys(wire)
        /\ DeserializeTy("Vec<Coin>", StructOf(wire).o["send"])
                = Ok(result.val.inner.fields.funds)
    /\ (pc = "done" /\ TagOf(wire) = {"wasm"} /\ Nested(wire)
            /\ "funds" \in FieldKeys(wire) /\ "send" \notin FieldKeys(wire)) =>
        result = DecodeError

C3_Witness ==
    /\ pc = "done"
    /\ tamper = [kind |-> "rename_field", arg |-> "send"]
    /\ TagOf(wire) = {"wasm"}
    /\ "funds" \in FieldKeys(wire) /\ "send" \notin FieldKeys(wire)
    /\ StructOf(wire).o["funds"].a # << >>
    /\ result = DecodeError

BytesOnWire(b) == JArr([i \in DOMAIN b |-> JNum(b[i])])

\* C4 as stated: an unset callback_sig leaves no callback_sig key in the
\* encoded object; a set one is written under that key as its bytes.
C4_AbsentWhenUnset ==
    (pc = "wire" /\ Encoded /\ env.variant = "Wasm") =>
        IF env.inner.fields.callback_sig = None
        THEN "callback_sig" \notin FieldKeys(wire)
        ELSE /\ "callback_sig" \in FieldKeys(wire)
             /\ StructOf(wire).o["callback_sig"]
                    = BytesOnWire(env.inner.fields.callback_sig.val)

\* C4 amended: an unset callback_sig is written as the key callback_sig with
\* the value null; a set one is written under that key as its bytes.
C4_NullWhenUnset ==
    (pc = "wire" /\ Encoded /\ env.variant = "Wasm") =>
        /\ "callback_sig" \in FieldKeys(wire)
        /\ StructOf(wire).o["callback_sig"]
                = IF env.inner.fields.callback_sig = None THEN JNull
                  ELSE BytesOnWire(env.inner.fields.callback_sig.val)

C4_Witness ==
    /\ pc = "wire" /\ Encoded
    /\ env.variant = "Wasm" /\ env.inner.variant = "Execute"
    /\ env.inner.fields.callback_sig = None
    /\ StructOf(wire).o["callback_sig"] = JNull

\* the tags a decoder of the full envelope recognizes, per union
OuterTags == {"bank", "custom", "staking", "distribution", "stargate", "ibc",
              "wasm", "gov"}

InnerTags ==
    [bank |-> {"send", "burn"},
     staking |-> {"delegate", "undelegate", "redelegate"},
     distribution |-> {"set_withdraw_address", "withdraw_delegator_reward"},
     wasm |-> {"execute", "instantiate"},
     gov |-> {"vote"}]

\* the required wire keys of each struct variant, as the interface table lists them
RequiredKeys ==
    [send |-> {"to_address", "amount"},
     burn |-> {"amount"},
     delegate |-> {"validator", "amount"},
     undelegate |-> {"validator", "amount"},
     redelegate |-> {"src_validator", "dst_validator", "amount"},
     set_withdraw_address |-> {"address"},
     withdraw_delegator_reward |-> {"validator"},
     execute |-> {"contract_addr", "code_hash", "msg", "send"},
     instantiate |-> {"code_id", "code_hash", "msg", "send", "label"},
     vote |-> {"proposal_id", "vote"},
     stargate |-> {"type_url", "value"}]

\* the struct variant tag of a payload whose tags are all recognized, else {}
StructTag(w) ==
    IF TagOf(w) = {} THEN {}
    ELSE IF OuterTag(w) = "stargate" THEN {"stargate"}
    ELSE IF OuterTag(w) \in DOMAIN InnerTags
    THEN TagOf(w.o[OuterTag(w)]) \cap InnerTags[OuterTag(w)]
    ELSE {}

\* C5: Decode answers DecodeError, which carries no value, whenever the
\* payload is no single-tag map, its outer or inner tag is not a variant tag,
\* a required key of the variant is missing, or a value has the wrong type;
\* only a missing callback_sig is accepted, and decodes as unset.
C5_DecodeFailure ==
    pc = "done" =>
        /\ result.ok \/ result = DecodeError
        /\ (TagOf(wire) = {} \/ TagOf(wire) \cap OuterTags = {}) => ~result.ok
        /\ (TagOf(wire) # {} /\ OuterTag(wire) \in DOMAIN InnerTags
                /\ StructTag(wire) = {}) => ~result.ok
        /\ \A t \in StructTag(wire) :
            /\ (StructOf(wire).k = "obj" /\ ~(RequiredKeys[t] \subseteq FieldKeys(wire)))
                    => ~result.ok
            /\ \A key \in {"code_id", "proposal_id"} \cap FieldKeys(wire) :
                    StructOf(wire).o[key].k = "str" => ~result.ok
        /\ tamper.kind \in {"wrong_type", "negative"} => ~result.ok
        /\ (tamper.kind \in {"drop_field", "null_field"} /\ tamper.arg # "callback_sig")
                => ~result.ok
        /\ (env # NoValue /\ tamper = [kind |-> "drop_field", arg |-> "callback_sig"]) =>
            /\ result.ok
            /\ result.val.inner.fields.callback_sig = None
            /\ result.val.inner.fields
                    = [env.inner.fields EXCEPT !.callback_sig = None]

C5_Witness ==
    /\ pc = "done"
    /\ tamper = [kind |-> "drop_field", arg |-> "code_hash"]
    /\ TagOf(wire) = {"wasm"} /\ StructTag(wire) = {"execute"}
    /\ "code_hash" \notin FieldKeys(wire)
    /\ result = DecodeError

\* the cargo feature that compiles each gated envelope variant in
Gate ==
    [staking |-> "staking", distribution |-> "staking", stargate |-> "stargate",
     ibc |-> "stargate", gov |-> "stargate"]

Excluded == {t \in DOMAIN Gate : Gate[t] \notin features}

\* C6: capability isolation -- in a build without a capability no envelope of
\* its variants exists, Encode writes none of its tags, Decode answers
\* DecodeError to every payload under one of its tags, and a bank, custom or
\* wasm payload decodes to the same result in every build.
C6_CapabilityIsolation ==
    /\ env # NoValue => TagNames[env.variant] \notin Excluded
    /\ (pc = "wire" /\ Encoded) => TagOf(wire) \cap Excluded = {}
    /\ (pc = "done" /\ TagOf(wire) \cap Excluded # {}) => result = DecodeError
    /\ (pc = "done" /\ TagOf(wire) \cap {"bank", "custom", "wasm"} # {}) =>
        \A f \in SUBSET Features : DeserializeCosmosMsg(f, wire) = result

C6_Witness ==
    /\ pc = "done"
    /\ "staking" \notin features
    /\ tamper = NoTamper
    /\ TagOf(wire) = {"staking"}
    /\ result = DecodeError

UpcastVariant ==
    [BankMsg |-> "Bank", StakingMsg |-> "Staking", DistributionMsg |-> "Distribution",
     WasmMsg |-> "Wasm", IbcMsg |-> "Ibc", GovMsg |-> "Gov"]

\* C7: the upcast of a sub-union value is always possible, gives the envelope
\* variant of the same module holding the value unchanged, no other value of
\* the build upcasts to the same envelope, and every compiled-in module
\* variant has its upcast.
C7_UpcastWraps ==
    /\ pc = "sub" => ENABLED Upcast
    /\ (pc = "env" /\ sub # NoValue) =>
        /\ env = [type |-> "CosmosMsg", variant |-> UpcastVariant[sub.type],
                  inner |-> sub]
        /\ \A m \in SubMsgs(features) : From(m) = env => m = sub
    /\ pc = "idle" =>
        \A v \in CompiledIn(CosmosMsg, features) :
            (v.kind = "newtype" /\ v.inner # "Empty") =>
                \E i \in CompiledIn(FromImpls, features) :
                    i.from = v.inner /\ i.to = Name(v.ident)

C7_Witness ==
    /\ pc = "env"
    /\ sub = Msg("BankMsg", "Burn",
                 [amount |-> << [denom |-> "uscrt", amount |-> 100] >>])
    /\ env = [type |-> "CosmosMsg", variant |-> "Bank", inner |-> sub]

\* C8: the codec commutes with the upcast -- decoding the encoded upcast of m
\* gives the upcast of the decoded encoding of m, and the encoding of the
\* upcast is the encoding of m under the one tag of its module.
C8_UpcastCommutes ==
    (pc = "done" /\ sub # NoValue /\ tamper = NoTamper) =>
        LET r == DeserializeEnum(sub.type, SerializeEnum(Decl(sub.type), sub))
        IN /\ r.ok
           /\ result = Ok(From(r.val))
           /\ wire = JObj(SnakeCase(VariantOf(CosmosMsg, UpcastVariant[sub.type]).ident)
                            :> SerializeEnum(Decl(sub.type), sub))
           /\ TagOf(wire) = {TagNames[UpcastVariant[sub.type]]}

C8_Witness ==
    /\ pc = "done" /\ tamper = NoTamper
    /\ sub # NoValue /\ sub.type = "StakingMsg" /\ sub.variant = "Redelegate"
    /\ result = Ok(From(sub))

\* C9: an unset callback_sig stays unset -- a wasm message built with
\* callback_sig unset has it unset in the envelope after the upcast, carries
\* no signature bytes on the wire after Encode, and has it unset after Decode.
C9_NoLeak ==
    (sub # NoValue /\ sub.type = "WasmMsg" /\ sub.fields.callback_sig = None
        /\ tamper = NoTamper) =>
        /\ pc \in {"env", "wire", "done"} => env.inner.fields.callback_sig = None
        /\ pc \in {"wire", "done"} =>
            \A key \in FieldKeys(wire) \cap {"callback_sig"} :
                StructOf(wire).o[key].k = "null"
        /\ pc = "done" =>
            /\ result.ok
            /\ result.val.inner.fields.callback_sig = None

C9_Witness ==
    /\ pc = "done" /\ tamper = NoTamper
    /\ sub # NoValue /\ sub.type = "WasmMsg" /\ sub.variant = "Execute"
    /\ sub.fields.callback_sig = None
    /\ result.ok /\ result.val.inner.fields.callback_sig = None

\* the capability C10 gives each gated variant as its own
OwnCapability ==
    [staking |-> "staking", distribution |-> "distribution", stargate |-> "stargate",
     ibc |-> "ibc", gov |-> "gov"]

Toggle(feats, c) == IF c \in feats THEN feats \ {c} ELSE feats \cup {c}

\* C10 as stated: whether Decode accepts a well-formed payload of a gated
\* variant depends on that variant's own capability only: switching any other
\* capability of the build leaves the answer as it is.
C10_OwnCapabilityOnly ==
    (pc = "done" /\ tamper = NoTamper /\ TagOf(wire) \cap DOMAIN Gate # {}) =>
        \A c \in Features \ {OwnCapability[OuterTag(wire)]} :
            DeserializeCosmosMsg(Toggle(features, c), wire).ok = result.ok

\* C10 amended: two capabilities gate the five variants.  Decode accepts a
\* well-formed staking or distribution payload exactly in the builds with the
\* staking feature, and a well-formed stargate, ibc or gov payload exactly in
\* the builds with the stargate feature; switching the other feature leaves
\* the answer as it is.
C10_TwoCapabilities ==
    (pc = "done" /\ tamper = NoTamper /\ TagOf(wire) \cap DOMAIN Gate # {}) =>
        /\ result.ok <=> Gate[OuterTag(wire)] \in features
        /\ \A c \in Features \ {Gate[OuterTag(wire)]} :
            DeserializeCosmosMsg(Toggle(features, c), wire).ok = result.ok

C10_Witness ==
    /\ pc = "done" /\ tamper = NoTamper
    /\ features = {"staking"}
    /\ TagOf(wire) = {"distribution"}
    /\ result.ok

====
